---- MODULE Spec2Model ----
(***************************************************************************)
(* Model of the spec-generation pipeline driven by generateSiSpecs         *)
(* (src/unnamed/part_001, lines 106-160).                                  *)
(*                                                                         *)
(* generateSiSpecs itself (loading, the build loop with its try/catch, the *)
(* order of the ten pipeline steps, emptying the output directory, the     *)
(* write loop with its try/catch and the final report) is modelled from    *)
(* the source.  The functions it imports (pkgSpecFromCf and the            *)
(* pipeline-steps) are modelled from the specification's section 4.        *)
(***************************************************************************)
EXTENDS Integers, Sequences, FiniteSets, TLC

(***************************************************************************)
(* Bounds of the model.                                                    *)
(***************************************************************************)
MaxSchemas == 2
MaxRuns == 2
MaxIoFailures == 1
MaxWiredSchemas == 3

(***************************************************************************)
(* Raw schemas (RawSchema of the data model): a type name and a sequence   *)
(* of raw properties.  A raw property has a raw kind, its flags, and, for  *)
(* a nested object, the fields of the object.  The raw kind "self" is a    *)
(* reference to the schema that encloses it.                               *)
(***************************************************************************)
\* the resource types of a database of n schemas are the first n of these
TypeNames == << "A", "B", "C", "D", "E" >>

RawField(n, k) == [name |-> n, kind |-> k]

RawProp(n, k, ro, pid, fields) ==
    [name |-> n, kind |-> k, readOnly |-> ro, primaryIdentifier |-> pid,
     properties |-> fields]

RedriveFields ==
    << RawField("deadLetterTargetArn", "string"),
       RawField("maxReceiveCount", "number") >>

TagFields ==
    << RawField("key", "string"),
       RawField("value", "string") >>

\* a nested shape that contains itself
TreeFields ==
    << RawField("label", "string"),
       RawField("child", "self") >>

RawShapes ==
    [ Topic |-> << RawProp("QueueArn", "string", TRUE, FALSE, <<>>),
                   RawProp("DisplayName", "string", FALSE, FALSE, <<>>),
                   RawProp("Subscriptions", "array", TRUE, FALSE, <<>>) >>,
      Queue |-> << RawProp("QueueArn", "string", TRUE, FALSE, <<>>),
                   RawProp("RedrivePolicy", "object", FALSE, FALSE, RedriveFields) >>,
      Role  |-> << RawProp("Id", "number", FALSE, TRUE, <<>>),
                   RawProp("QueueArn", "string", FALSE, FALSE, <<>>),
                   RawProp("Policy", "object", FALSE, FALSE, RedriveFields) >>,
      Bad   |-> << RawProp("Blob", "bogus", FALSE, FALSE, <<>>) >>,
      Collide |-> << RawProp("queueArn", "number", TRUE, FALSE, <<>>),
                     RawProp("QueueArn", "string", TRUE, FALSE, <<>>) >>,
      Twin  |-> << RawProp("id", "string", FALSE, FALSE, <<>>),
                   RawProp("Primary", "object", FALSE, FALSE, RedriveFields),
                   RawProp("Fallback", "object", FALSE, FALSE, RedriveFields),
                   RawProp("Tags", "array", FALSE, FALSE, TagFields) >>,
      Loop  |-> << RawProp("Name", "string", FALSE, FALSE, <<>>),
                   RawProp("Tree", "object", FALSE, FALSE, TreeFields) >> ]

\* the shapes of the databases of at most MaxSchemas types
ShapeIds == {"Topic", "Queue", "Role", "Bad"}

\* the shapes of the databases of at most MaxWiredSchemas types
WiredShapeIds == {"Queue", "Role", "Collide", "Twin", "Loop"}

RawSchema(t, sh) == [typeName |-> t, properties |-> RawShapes[sh]]

(***************************************************************************)
(* Spec Builder: pkgSpecFromCf.  One raw schema gives one draft PkgSpec    *)
(* with no sockets and no functions, or the translation fails.             *)
(***************************************************************************)
ScalarKinds == {"String", "Number", "Boolean"}

PropKind(raw) ==
    CASE raw = "string"  -> "String"
      [] raw = "number"  -> "Number"
      [] raw = "integer" -> "Number"
      [] raw = "boolean" -> "Boolean"
      [] raw = "object"  -> "Object"
      [] raw = "array"   -> "Array"
      [] raw = "map"     -> "Map"
      [] raw = "self"    -> "Object"
      [] OTHER           -> "Unrecognized"

FieldSpec(f) == [name |-> f.name, kind |-> PropKind(f.kind)]

PropSpec(rp) ==
    [name     |-> rp.name,
     kind     |-> PropKind(rp.kind),
     readOnly |-> rp.readOnly,
     primaryIdentifier |-> rp.primaryIdentifier,
     children |-> [k \in 1..Len(rp.properties) |-> FieldSpec(rp.properties[k])],
     ref      |-> ""]

\* the depth at which the builder stops following a schema into itself
MaxNestingDepth == 3

\* NestingDepth of a builder that follows a reference without counting the levels
NestingDepthUncounted(raw, depth) == depth

\* the depth the translation of a property of this raw kind, met at this depth,
\* has reached when it stops: a reference to the enclosing schema is followed
\* one level further, until the bound is passed
RECURSIVE NestingDepth(_, _)
NestingDepth(raw, depth) ==
    IF depth > MaxNestingDepth THEN depth
    ELSE IF raw = "self" THEN NestingDepth(raw, depth + 1)
    ELSE depth

SchemaTranslationError(cfSchema) ==
    \E k \in 1..Len(cfSchema.properties) :
        \/ PropKind(cfSchema.properties[k].kind) = "Unrecognized"
        \/ NestingDepth(cfSchema.properties[k].kind, 1) > MaxNestingDepth
        \/ \E j \in 1..Len(cfSchema.properties[k].properties) :
               \/ PropKind(cfSchema.properties[k].properties[j].kind) = "Unrecognized"
               \/ NestingDepth(cfSchema.properties[k].properties[j].kind, 2) > MaxNestingDepth

pkgSpecFromCf(cfSchema) ==
    [name     |-> cfSchema.typeName,
     schemaId |-> 0,
     props    |-> [k \in 1..Len(cfSchema.properties) |-> PropSpec(cfSchema.properties[k])],
     sockets  |-> <<>>,
     funcs    |-> {},
     assetSrc |-> <<>>,
     parent   |-> "",
     seen     |-> {}]

(***************************************************************************)
(* Helpers shared by the pipeline steps.                                   *)
(***************************************************************************)
Range(seq) == {seq[k] : k \in 1..Len(seq)}

Names(seq) == {seq[k].name : k \in 1..Len(seq)}

Seen(spec, step) == [spec EXCEPT !.seen = @ \cup {step}]

Socket(n, t, d) == [name |-> n, type |-> t, direction |-> d]

Func(k, n) == [kind |-> k, name |-> n, by |-> "default"]

\* The socket name of a property path: the path in Pascal case.
NormalizeName(path) ==
    CASE path = "queueArn" -> "QueueArn"
      [] path = "id"       -> "Id"
      [] OTHER             -> path

\* seq with every socket of name n and direction d removed, order kept
RECURSIVE WithoutSocket(_, _, _)
WithoutSocket(seq, n, d) ==
    IF seq = <<>> THEN <<>>
    ELSE LET rest == WithoutSocket(Tail(seq), n, d)
         IN  IF Head(seq).name = n /\ Head(seq).direction = d
             THEN rest ELSE <<Head(seq)>> \o rest

\* PutSocket that keeps the socket it finds under the name
PutSocketFirstWins(seq, sock) ==
    IF \E k \in 1..Len(seq) : seq[k].name = sock.name /\ seq[k].direction = sock.direction
    THEN seq ELSE Append(seq, sock)

\* last write wins: a socket of the same name and direction is replaced
PutSocket(seq, sock) == Append(WithoutSocket(seq, sock.name, sock.direction), sock)

(***************************************************************************)
(* 4.2 Output-Socket Deriver: generateOutputSocketsFromResourceProps.      *)
(***************************************************************************)
IsOutputProp(p) == p.readOnly \/ p.primaryIdentifier

RECURSIVE DeriveOutputSockets(_, _, _)
DeriveOutputSockets(props, k, socks) ==
    IF k > Len(props) THEN socks
    ELSE IF IsOutputProp(props[k]) /\ props[k].kind \in ScalarKinds
         THEN DeriveOutputSockets(props, k + 1,
                  PutSocket(socks, Socket(NormalizeName(props[k].name), props[k].kind, "Output")))
         ELSE DeriveOutputSockets(props, k + 1, socks)

OutputSocketsOf(spec) ==
    Seen([spec EXCEPT !.sockets = DeriveOutputSockets(spec.props, 1, spec.sockets)],
         "outputSockets")

generateOutputSocketsFromResourceProps(specs) ==
    [k \in 1..Len(specs) |-> OutputSocketsOf(specs[k])]

(***************************************************************************)
(* 4.3 Default Augmenter: addDefaultPropsAndSockets.                       *)
(***************************************************************************)
DefaultProp ==
    [name |-> "extra", kind |-> "Map", readOnly |-> FALSE,
     primaryIdentifier |-> FALSE, children |-> <<>>, ref |-> ""]

DefaultSocket == Socket("Credential", "String", "Input")

\* DefaultsOf that adds the defaults without looking for them first
DefaultsOfAppending(spec) ==
    Seen([spec EXCEPT !.props = Append(@, DefaultProp),
                      !.sockets = Append(@, DefaultSocket)],
         "defaults")

DefaultsOf(spec) ==
    Seen([spec EXCEPT
            !.props   = IF DefaultProp.name \in Names(@) THEN @ ELSE Append(@, DefaultProp),
            !.sockets = IF \E k \in 1..Len(@) : @[k].name = DefaultSocket.name
                                             /\ @[k].direction = "Input"
                        THEN @ ELSE Append(@, DefaultSocket)],
         "defaults")

addDefaultPropsAndSockets(specs) ==
    [k \in 1..Len(specs) |-> DefaultsOf(specs[k])]

(***************************************************************************)
(* 4.4-4.6 Action, Leaf and Management function generators.                *)
(***************************************************************************)
ActionFuncs == {Func("Action", n) : n \in {"create", "read", "update", "delete"}}

LeafFuncs == {Func("Leaf", n) : n \in {"qualification", "codeGeneration"}}

ManagementFuncs == {Func("Management", n) : n \in {"discover", "import"}}

WithFuncs(spec, fs, step) == Seen([spec EXCEPT !.funcs = @ \cup fs], step)

generateDefaultActionFuncs(specs) ==
    [k \in 1..Len(specs) |-> WithFuncs(specs[k], ActionFuncs, "actionFuncs")]

generateDefaultLeafFuncs(specs) ==
    [k \in 1..Len(specs) |-> WithFuncs(specs[k], LeafFuncs, "leafFuncs")]

generateDefaultManagementFuncs(specs) ==
    [k \in 1..Len(specs) |-> WithFuncs(specs[k], ManagementFuncs, "managementFuncs")]

(***************************************************************************)
(* 4.7 Sub-Asset Extractor: generateSubAssets.  A nested Object or         *)
(* Array(Object) property with enough fields becomes a spec of its own,    *)
(* named for its shape; structurally identical shapes share one sub-asset. *)
(***************************************************************************)
SubAssetMinFields == 2

ShapeHash(children) == [k \in 1..Len(children) |-> <<children[k].name, children[k].kind>>]

SubAssetName(children) ==
    CASE ShapeHash(children) = << <<"deadLetterTargetArn", "String">>,
                                  <<"maxReceiveCount", "Number">> >> -> "RedrivePolicyShape"
      [] OTHER -> "NestedShape"

IsSubAssetCandidate(p) ==
    p.kind \in {"Object", "Array"} /\ Len(p.children) >= SubAssetMinFields

RefProp(p) == [p EXCEPT !.kind = "Ref", !.children = <<>>, !.ref = SubAssetName(p.children)]

SubAssetSpec(parent, p) ==
    [name     |-> SubAssetName(p.children),
     schemaId |-> 0,
     props    |-> [k \in 1..Len(p.children) |->
                     [name |-> p.children[k].name, kind |-> p.children[k].kind,
                      readOnly |-> FALSE, primaryIdentifier |-> FALSE,
                      children |-> <<>>, ref |-> ""]],
     sockets  |-> <<>>,
     funcs    |-> {},
     assetSrc |-> <<>>,
     parent   |-> parent.name,
     seen     |-> {"subAssets"}]

WithReferences(spec) ==
    Seen([spec EXCEPT !.props = [k \in 1..Len(@) |->
                          IF IsSubAssetCandidate(@[k]) THEN RefProp(@[k]) ELSE @[k]]],
         "subAssets")

\* ExtractFrom with a sub-asset for every occurrence of a shape
RECURSIVE ExtractFromEveryOccurrence(_, _, _, _)
ExtractFromEveryOccurrence(specs, k, j, subs) ==
    IF k > Len(specs) THEN subs
    ELSE IF j > Len(specs[k].props) THEN ExtractFromEveryOccurrence(specs, k + 1, 1, subs)
    ELSE LET p == specs[k].props[j]
         IN  IF IsSubAssetCandidate(p)
             THEN ExtractFromEveryOccurrence(specs, k, j + 1,
                                             Append(subs, SubAssetSpec(specs[k], p)))
             ELSE ExtractFromEveryOccurrence(specs, k, j + 1, subs)

\* the sub-assets of specs[k..], in order of occurrence, one per shape name
RECURSIVE ExtractFrom(_, _, _, _)
ExtractFrom(specs, k, j, subs) ==
    IF k > Len(specs) THEN subs
    ELSE IF j > Len(specs[k].props) THEN ExtractFrom(specs, k + 1, 1, subs)
    ELSE LET p == specs[k].props[j]
         IN  IF IsSubAssetCandidate(p)
                /\ SubAssetName(p.children) \notin (Names(subs) \cup Names(specs))
             THEN ExtractFrom(specs, k, j + 1, Append(subs, SubAssetSpec(specs[k], p)))
             ELSE ExtractFrom(specs, k, j + 1, subs)

generateSubAssets(specs) ==
    [k \in 1..Len(specs) |-> WithReferences(specs[k])] \o ExtractFrom(specs, 1, 1, <<>>)

(***************************************************************************)
(* 4.8 Intrinsic Function Attacher: generateIntrinsicFuncs.                *)
(***************************************************************************)
IntrinsicFuncs == {Func("Intrinsic", n) : n \in {"identity", "setObject"}}

generateIntrinsicFuncs(specs) ==
    [k \in 1..Len(specs) |-> WithFuncs(specs[k], IntrinsicFuncs, "intrinsicFuncs")]

(***************************************************************************)
(* 4.9 Input-Socket Resolver: createInputSocketsBasedOnOutputSockets.      *)
(* A writable scalar property is a dependency on a value of its name and   *)
(* type; it gets an input socket when exactly one other spec offers an     *)
(* output socket of that (normalized name, type).                          *)
(***************************************************************************)
IsDependency(p) == ~IsOutputProp(p) /\ p.kind \in ScalarKinds

\* OutputMatches with the index of output sockets keyed by name alone
OutputMatchesByName(specs, k, n, t) ==
    UNION { { <<j, m>> : m \in {m \in 1..Len(specs[j].sockets) :
                                   /\ specs[j].sockets[m].name = n
                                   /\ specs[j].sockets[m].direction = "Output"} } :
            j \in (1..Len(specs)) \ {k} }

\* where, outside specs[k], an output socket of this name and type is
OutputMatches(specs, k, n, t) ==
    UNION { { <<j, m>> : m \in {m \in 1..Len(specs[j].sockets) :
                                   specs[j].sockets[m] = Socket(n, t, "Output")} } :
            j \in (1..Len(specs)) \ {k} }

\* ResolveInputs that takes a match when several output sockets qualify
RECURSIVE ResolveInputsGuessing(_, _, _, _)
ResolveInputsGuessing(specs, k, j, socks) ==
    IF j > Len(specs[k].props) THEN socks
    ELSE LET p == specs[k].props[j]
             found == OutputMatches(specs, k, NormalizeName(p.name), p.kind)
         IN  IF IsDependency(p) /\ Cardinality(found) >= 1
             THEN ResolveInputsGuessing(specs, k, j + 1,
                      PutSocket(socks, Socket(NormalizeName(p.name), p.kind, "Input")))
             ELSE ResolveInputsGuessing(specs, k, j + 1, socks)

RECURSIVE ResolveInputs(_, _, _, _)
ResolveInputs(specs, k, j, socks) ==
    IF j > Len(specs[k].props) THEN socks
    ELSE LET p == specs[k].props[j]
             found == OutputMatches(specs, k, NormalizeName(p.name), p.kind)
         IN  IF IsDependency(p) /\ Cardinality(found) = 1
             THEN ResolveInputs(specs, k, j + 1,
                      PutSocket(socks, Socket(NormalizeName(p.name), p.kind, "Input")))
             ELSE ResolveInputs(specs, k, j + 1, socks)

createInputSocketsBasedOnOutputSockets(specs) ==
    [k \in 1..Len(specs) |->
        Seen([specs[k] EXCEPT !.sockets = ResolveInputs(specs, k, 1, @)], "inputSockets")]

(***************************************************************************)
(* 4.10 Asset Function Synthesizer: generateAssetFuncs.  The source of the *)
(* asset function lists the properties and then the sockets, in order.     *)
(***************************************************************************)
AssetSource(spec) ==
    [k \in 1..Len(spec.props) |-> spec.props[k].name]
        \o [k \in 1..Len(spec.sockets) |-> spec.sockets[k].name]

generateAssetFuncs(specs) ==
    [k \in 1..Len(specs) |->
        WithFuncs([specs[k] EXCEPT !.assetSrc = AssetSource(specs[k])],
                  {Func("Asset", "main")}, "assetFuncs")]

(***************************************************************************)
(* 4.11 Identity Reconciler: updateSchemaIdsForExistingSpecs.              *)
(* (a) a previous spec of the same name matches; (b) otherwise a previous  *)
(* spec whose type is gone from the new collection and whose structural    *)
(* fingerprint is the same matches (a renamed type).  Two new specs        *)
(* matched to one previous spec are an identity conflict.  An unmatched    *)
(* spec gets a freshly minted schemaId.                                    *)
(***************************************************************************)
Fingerprint(spec) == [k \in 1..Len(spec.props) |-> <<spec.props[k].name, spec.props[k].kind>>]

ExactMatches(existing, spec) == {p \in existing : p.name = spec.name}

FuzzyMatches(existing, specs, spec) ==
    {p \in existing : /\ p.name \notin Names(specs)
                      /\ (p.parent = "") = (spec.parent = "")
                      /\ Fingerprint(p) = Fingerprint(spec)}

MatchOf(existing, specs, spec) ==
    IF ExactMatches(existing, spec) # {} THEN ExactMatches(existing, spec)
    ELSE IF Cardinality(FuzzyMatches(existing, specs, spec)) = 1
         THEN FuzzyMatches(existing, specs, spec)
         ELSE {}

IdentityConflict(existing, specs) ==
    \E j, k \in 1..Len(specs) :
        /\ j # k
        /\ MatchOf(existing, specs, specs[j]) \cap MatchOf(existing, specs, specs[k]) # {}

\* the previous spec's user-authored functions replace the defaults they override
PreservedFuncs(prior, funcs) ==
    LET user == {f \in prior.funcs : f.by = "user"}
    IN  {f \in funcs : ~\E u \in user : u.kind = f.kind /\ u.name = f.name} \cup user

RECURSIVE AssignSchemaIds(_, _, _, _, _)
AssignSchemaIds(existing, specs, k, next, out) ==
    IF k > Len(specs) THEN [specs |-> out, minted |-> next]
    ELSE LET m == MatchOf(existing, specs, specs[k])
         IN  IF m # {}
             THEN LET prior == CHOOSE p \in m : TRUE
                  IN  AssignSchemaIds(existing, specs, k + 1, next,
                          Append(out, Seen([specs[k] EXCEPT
                                              !.schemaId = prior.schemaId,
                                              !.funcs = PreservedFuncs(prior, @)],
                                           "schemaIds")))
             ELSE AssignSchemaIds(existing, specs, k + 1, next + 1,
                      Append(out, Seen([specs[k] EXCEPT !.schemaId = next + 1],
                                       "schemaIds")))

updateSchemaIdsForExistingSpecs(existing, specs, next) ==
    AssignSchemaIds(existing, specs, 1, next, <<>>)

(***************************************************************************)
(* generateSiSpecs: the state.                                             *)
(*   cfDatabase      what loadCfDatabase reads (resource type -> schema)   *)
(*   disk            the artifacts in the output directory si-specs        *)
(*   minted          how many schemaIds have been minted so far            *)
(*   pc              where the run is                                      *)
(*   cfSchemas, existing_specs, imported, specs  the function's locals     *)
(*   i, step, w      position in the build loop, the pipeline, the write   *)
(*                   loop                                                  *)
(*   log             what the run has printed                              *)
(*   trace           the pipeline steps called in this run, in order       *)
(*   attempted       names of the specs handed to writeTextFile            *)
(*   ioFailures      writes and directory removals that have failed        *)
(*   failure         why the run was rejected, "" while it is not          *)
(*   runs            runs started so far                                   *)
(*   priorDisk       the output directory as it was when the run started   *)
(*   previousRun     of the run before this one, when it reconciled its    *)
(*                   collection and left the output directory as it found  *)
(*                   it: that directory and that collection                *)
(***************************************************************************)
VARIABLES cfDatabase, disk, minted, pc, cfSchemas, existing_specs, imported,
          specs, i, step, w, log, trace, attempted, ioFailures, failure, runs, priorDisk,
          previousRun

(***************************************************************************)
(* removeFromEditField: the state.                                         *)
(*   visibility, workspace  what visibility$ and workspace$ emitted last,  *)
(*                   <<>> while they have emitted nothing                  *)
(*   subscriptions   the subscriptions of the observables returned         *)
(*   events          of each subscription, in order: the POSTs it sent,    *)
(*                   the responses that arrived and the values it pushed   *)
(*                   to editSessionWritten$                                *)
(*   emissions       how many values the two sources have emitted          *)
(* useWorkspacesStore: the state.                                          *)
(*   user            authStore.user, <<>> while nobody is signed in        *)
(*   workspacesById, selectedWorkspaceMembersById  the store's state       *)
(***************************************************************************)
VARIABLES visibility, workspace, subscriptions, events, emissions,
          user, workspacesById, selectedWorkspaceMembersById

editVars == <<visibility, workspace, subscriptions, events, emissions>>

storeVars == <<user, workspacesById, selectedWorkspaceMembersById>>

pipelineVars == <<cfDatabase, disk, minted, pc, cfSchemas, existing_specs, imported,
                  specs, i, step, w, log, trace, attempted, ioFailures, failure, runs,
                  priorDisk, previousRun>>

vars == <<cfDatabase, disk, minted, pc, cfSchemas, existing_specs, imported,
          specs, i, step, w, log, trace, attempted, ioFailures, failure, runs, priorDisk, previousRun, editVars, storeVars>>

\* PipelineSteps with the action and leaf generators called in the other order
PipelineStepsLeafFirst ==
    << "outputSockets", "defaults", "leafFuncs", "actionFuncs", "managementFuncs",
       "subAssets", "intrinsicFuncs", "inputSockets", "assetFuncs", "schemaIds" >>

\* PipelineSteps with the asset functions synthesized before the input sockets exist
PipelineStepsAssetFuncsEarly ==
    << "outputSockets", "defaults", "actionFuncs", "leafFuncs", "managementFuncs",
       "subAssets", "intrinsicFuncs", "assetFuncs", "inputSockets", "schemaIds" >>

\* PipelineSteps with the intrinsic functions attached before the sub-assets exist
PipelineStepsIntrinsicsEarly ==
    << "outputSockets", "defaults", "actionFuncs", "leafFuncs", "managementFuncs",
       "intrinsicFuncs", "subAssets", "inputSockets", "assetFuncs", "schemaIds" >>

\* PipelineSteps with the sub-assets extracted before the defaults are added
PipelineStepsSubAssetsFirst ==
    << "outputSockets", "subAssets", "defaults", "actionFuncs", "leafFuncs",
       "managementFuncs", "intrinsicFuncs", "inputSockets", "assetFuncs", "schemaIds" >>

\* PipelineSteps with the action functions generated after the reconciler has run
PipelineStepsActionFuncsLast ==
    << "outputSockets", "defaults", "leafFuncs", "managementFuncs", "subAssets",
       "intrinsicFuncs", "inputSockets", "assetFuncs", "schemaIds", "actionFuncs" >>

\* lines 126-137: the pipeline steps in the order generateSiSpecs calls them
PipelineSteps ==
    << "outputSockets", "defaults", "actionFuncs", "leafFuncs", "managementFuncs",
       "subAssets", "intrinsicFuncs", "inputSockets", "assetFuncs", "schemaIds" >>

\* JSON.stringify(spec, null, 2): the document written for a spec
Artifact(spec) ==
    [name |-> spec.name, schemaId |-> spec.schemaId, props |-> spec.props,
     sockets |-> spec.sockets, funcs |-> spec.funcs, assetSrc |-> spec.assetSrc,
     parent |-> spec.parent]

\* Deno.writeTextFile(`${SI_SPEC_DIR}/${name}.json`, specJson): one file per name
WriteTextFile(dir, doc) == {a \in dir : a.name # doc.name} \cup {doc}

LogEntry(k, n, r) == [kind |-> k, name |-> n, reason |-> r, built |-> 0, outOf |-> 0]

BuiltEntry(n, m) == [kind |-> "built", name |-> "", reason |-> "", built |-> n, outOf |-> m]

(***************************************************************************)
(* The inputs: every cfDatabase of at most MaxSchemas resource types, and  *)
(* an output directory as an earlier complete run left it.                 *)
(***************************************************************************)
Databases ==
    UNION { { [k \in 1..n |-> RawSchema(TypeNames[k], sh[k])] : sh \in [1..n -> ShapeIds] } :
            n \in 0..MaxSchemas }

EarlierDatabases ==
    {<<>>} \cup { <<RawSchema("Old", sh)>> : sh \in ShapeIds \ {"Bad"} }

RECURSIVE Drafts(_)
Drafts(schemas) ==
    IF schemas = <<>> THEN <<>>
    ELSE IF SchemaTranslationError(Head(schemas)) THEN Drafts(Tail(schemas))
         ELSE <<pkgSpecFromCf(Head(schemas))>> \o Drafts(Tail(schemas))

EarlierRun(schemas) ==
    LET s1 == generateOutputSocketsFromResourceProps(Drafts(schemas))
        s2 == addDefaultPropsAndSockets(s1)
        s3 == generateDefaultActionFuncs(s2)
        s4 == generateDefaultLeafFuncs(s3)
        s5 == generateDefaultManagementFuncs(s4)
        s6 == generateSubAssets(s5)
        s7 == generateIntrinsicFuncs(s6)
        s8 == createInputSocketsBasedOnOutputSockets(s7)
        s9 == generateAssetFuncs(s8)
    IN  updateSchemaIdsForExistingSpecs({}, s9, 0)

\* a function a user wrote in place of the generated one of its kind and name
UserFunc(k, n) == [kind |-> k, name |-> n, by |-> "user"]

UserAuthored == {UserFunc("Action", "create")}

\* an emitted spec after a user replaced generated functions by their own
UserEdited(artifact) ==
    IF artifact.parent # "" THEN artifact
    ELSE [artifact EXCEPT
            !.funcs = {f \in @ : ~\E u \in UserAuthored : u.kind = f.kind /\ u.name = f.name}
                          \cup UserAuthored]

EarlierDisk(schemas) == {Artifact(s) : s \in Range(EarlierRun(schemas).specs)}

\* the earlier outputs whose functions a user has worked on since
AuthoredDatabases == { <<RawSchema("Old", "Queue")>> }

\* the output directory and the schemaIds minted, as earlier runs and users left them
EarlierStates ==
    { [disk |-> EarlierDisk(e), minted |-> EarlierRun(e).minted] : e \in EarlierDatabases }
    \cup { [disk |-> {UserEdited(a) : a \in EarlierDisk(e)}, minted |-> EarlierRun(e).minted] :
              e \in AuthoredDatabases }

\* every database of at most MaxWiredSchemas types of the shapes WiredShapeIds
WiredDatabases ==
    UNION { { [k \in 1..n |-> RawSchema(TypeNames[k], sh[k])] : sh \in [1..n -> WiredShapeIds] } :
            n \in 0..MaxWiredSchemas }

\* an output directory that is empty or holds what a run on one queue type emitted
WiredEarlierStates ==
    { [disk |-> EarlierDisk(e), minted |-> EarlierRun(e).minted] :
          e \in {<<>>, <<RawSchema("Old", "Queue")>>} }

\* no observable of removeFromEditField is subscribed to
EditFieldUnused ==
    /\ visibility = <<>>
    /\ workspace = <<>>
    /\ subscriptions = <<>>
    /\ events = <<>>
    /\ emissions = 0

\* the workspaces store as defineStore creates it, nobody signed in
StoreUnused ==
    /\ user = <<>>
    /\ workspacesById = <<>>
    /\ selectedWorkspaceMembersById = <<>>

\* the locals of generateSiSpecs when it is called
Called ==
    /\ pc = "start"
    /\ cfSchemas = <<>>
    /\ existing_specs = {}
    /\ imported = 0
    /\ specs = <<>>
    /\ i = 1
    /\ step = 1
    /\ w = 1
    /\ log = <<>>
    /\ trace = <<>>
    /\ attempted = {}
    /\ ioFailures = 0
    /\ failure = ""
    /\ runs = 1
    /\ priorDisk = disk
    /\ previousRun = [prior |-> {}, final |-> <<>>, reconciled |-> FALSE]

Init ==
    /\ cfDatabase \in Databases
    /\ \E earlier \in EarlierStates :
          /\ disk = earlier.disk
          /\ minted = earlier.minted
    /\ Called
    /\ EditFieldUnused
    /\ StoreUnused

InitWired ==
    /\ cfDatabase \in WiredDatabases
    /\ \E earlier \in WiredEarlierStates :
          /\ disk = earlier.disk
          /\ minted = earlier.minted
    /\ Called
    /\ EditFieldUnused
    /\ StoreUnused

(***************************************************************************)
(* Lines 107-123: loading, and the build loop with its try/catch.          *)
(***************************************************************************)
LoadCfDatabase ==
    /\ pc = "start"
    /\ cfSchemas' = cfDatabase
    /\ pc' = "getExisting"
    /\ UNCHANGED <<cfDatabase, disk, minted, existing_specs, imported, specs, i,
                   step, w, log, trace, attempted, ioFailures, failure, runs, priorDisk, previousRun, editVars, storeVars>>

\* GetExistingSpecs reading an output directory that holds nothing
GetExistingSpecsOfEmptyDirectory ==
    /\ pc = "getExisting"
    /\ existing_specs' = {}
    /\ imported' = 0
    /\ specs' = <<>>
    /\ i' = 1
    /\ pc' = "build"
    /\ UNCHANGED <<cfDatabase, disk, minted, cfSchemas, step, w, log, trace,
                   attempted, ioFailures, failure, runs, priorDisk, previousRun, editVars, storeVars>>

GetExistingSpecs ==
    /\ pc = "getExisting"
    /\ existing_specs' = disk
    /\ imported' = 0
    /\ specs' = <<>>
    /\ i' = 1
    /\ pc' = "build"
    /\ UNCHANGED <<cfDatabase, disk, minted, cfSchemas, step, w, log, trace,
                   attempted, ioFailures, failure, runs, priorDisk, previousRun, editVars, storeVars>>

\* BuildSpec with the translations run concurrently: a draft takes its place in
\* the collection when its translation completes, before or after the others
BuildSpecAsCompleted ==
    /\ pc = "build"
    /\ i <= Len(cfSchemas)
    /\ ~SchemaTranslationError(cfSchemas[i])
    /\ \E q \in 0..Len(specs) :
          specs' = SubSeq(specs, 1, q) \o <<pkgSpecFromCf(cfSchemas[i])>>
                       \o SubSeq(specs, q + 1, Len(specs))
    /\ i' = i + 1
    /\ UNCHANGED <<cfDatabase, disk, minted, pc, cfSchemas, existing_specs, imported,
                   step, w, log, trace, attempted, ioFailures, failure, runs, priorDisk, previousRun, editVars, storeVars>>

BuildSpec ==
    /\ pc = "build"
    /\ i <= Len(cfSchemas)
    /\ ~SchemaTranslationError(cfSchemas[i])
    /\ specs' = Append(specs, pkgSpecFromCf(cfSchemas[i]))
    /\ i' = i + 1
    /\ UNCHANGED <<cfDatabase, disk, minted, pc, cfSchemas, existing_specs, imported,
                   step, w, log, trace, attempted, ioFailures, failure, runs, priorDisk, previousRun, editVars, storeVars>>

\* BuildError with no try block around pkgSpecFromCf: the error rejects the run
BuildErrorRethrown ==
    /\ pc = "build"
    /\ i <= Len(cfSchemas)
    /\ SchemaTranslationError(cfSchemas[i])
    /\ failure' = "SchemaTranslationError"
    /\ pc' = "failed"
    /\ UNCHANGED <<cfDatabase, disk, minted, cfSchemas, existing_specs, imported,
                   specs, i, step, w, log, trace, attempted, ioFailures, runs, priorDisk, previousRun, editVars, storeVars>>

BuildError ==
    /\ pc = "build"
    /\ i <= Len(cfSchemas)
    /\ SchemaTranslationError(cfSchemas[i])
    /\ log' = Append(log, LogEntry("Error Building", cfSchemas[i].typeName,
                                   "SchemaTranslationError"))
    /\ i' = i + 1
    /\ UNCHANGED <<cfDatabase, disk, minted, pc, cfSchemas, existing_specs, imported,
                   specs, step, w, trace, attempted, ioFailures, failure, runs, priorDisk, previousRun, editVars, storeVars>>

\* BuildDone with emptyDirectory called before the pipeline steps
BuildDoneEmptyingDirectory ==
    /\ pc = "build"
    /\ i > Len(cfSchemas)
    /\ disk' = {}
    /\ pc' = "pipeline"
    /\ step' = 1
    /\ UNCHANGED <<cfDatabase, minted, cfSchemas, existing_specs, imported,
                   specs, i, w, log, trace, attempted, ioFailures, failure, runs, priorDisk, previousRun, editVars, storeVars>>

BuildDone ==
    /\ pc = "build"
    /\ i > Len(cfSchemas)
    /\ pc' = "pipeline"
    /\ step' = 1
    /\ UNCHANGED <<cfDatabase, disk, minted, cfSchemas, existing_specs, imported,
                   specs, i, w, log, trace, attempted, ioFailures, failure, runs, priorDisk, previousRun, editVars, storeVars>>

(***************************************************************************)
(* Derivation warnings of the two socket steps: one entry per affected     *)
(* property, carrying the name of its spec.                                *)
(***************************************************************************)
RECURSIVE OutputSocketWarnings(_, _, _)
OutputSocketWarnings(all, k, j) ==
    IF k > Len(all) THEN <<>>
    ELSE IF j > Len(all[k].props) THEN OutputSocketWarnings(all, k + 1, 1)
    ELSE IF IsOutputProp(all[k].props[j]) /\ all[k].props[j].kind \notin ScalarKinds
         THEN <<LogEntry("warning", all[k].name, "non-scalar read-only property")>>
                  \o OutputSocketWarnings(all, k, j + 1)
         ELSE OutputSocketWarnings(all, k, j + 1)

RECURSIVE InputSocketWarnings(_, _, _)
InputSocketWarnings(all, k, j) ==
    IF k > Len(all) THEN <<>>
    ELSE IF j > Len(all[k].props) THEN InputSocketWarnings(all, k + 1, 1)
    ELSE IF /\ IsDependency(all[k].props[j])
            /\ Cardinality(OutputMatches(all, k, NormalizeName(all[k].props[j].name),
                                         all[k].props[j].kind)) > 1
         THEN <<LogEntry("warning", all[k].name, "ambiguous socket match")>>
                  \o InputSocketWarnings(all, k, j + 1)
         ELSE InputSocketWarnings(all, k, j + 1)

(***************************************************************************)
(* Lines 126-137: the pipeline steps, one call each, every call taking    *)
(* the whole collection and returning the whole collection.                *)
(***************************************************************************)
AfterStep == IF step = Len(PipelineSteps) THEN "empty" ELSE "pipeline"

RunStep(name, out, warnings) ==
    /\ pc = "pipeline"
    /\ step <= Len(PipelineSteps)
    /\ PipelineSteps[step] = name
    /\ specs' = out
    /\ log' = log \o warnings
    /\ trace' = Append(trace, name)
    /\ step' = step + 1
    /\ pc' = AfterStep
    /\ UNCHANGED <<cfDatabase, disk, minted, cfSchemas, existing_specs, imported,
                   i, w, attempted, ioFailures, failure, runs, priorDisk, previousRun, editVars, storeVars>>

GenerateOutputSockets ==
    RunStep("outputSockets", generateOutputSocketsFromResourceProps(specs),
            OutputSocketWarnings(specs, 1, 1))

AddDefaultPropsAndSockets ==
    RunStep("defaults", addDefaultPropsAndSockets(specs), <<>>)

GenerateDefaultActionFuncs ==
    RunStep("actionFuncs", generateDefaultActionFuncs(specs), <<>>)

GenerateDefaultLeafFuncs ==
    RunStep("leafFuncs", generateDefaultLeafFuncs(specs), <<>>)

GenerateDefaultManagementFuncs ==
    RunStep("managementFuncs", generateDefaultManagementFuncs(specs), <<>>)

GenerateSubAssets ==
    RunStep("subAssets", generateSubAssets(specs), <<>>)

GenerateIntrinsicFuncs ==
    RunStep("intrinsicFuncs", generateIntrinsicFuncs(specs), <<>>)

CreateInputSockets ==
    RunStep("inputSockets", createInputSocketsBasedOnOutputSockets(specs),
            InputSocketWarnings(specs, 1, 1))

GenerateAssetFuncs ==
    RunStep("assetFuncs", generateAssetFuncs(specs), <<>>)

\* line 137: the call is in no try block, so what it throws rejects the run
UpdateSchemaIds ==
    /\ pc = "pipeline"
    /\ step <= Len(PipelineSteps)
    /\ PipelineSteps[step] = "schemaIds"
    /\ ~IdentityConflict(existing_specs, specs)
    /\ LET r == updateSchemaIdsForExistingSpecs(existing_specs, specs, minted)
       IN  /\ specs' = r.specs
           /\ minted' = r.minted
    /\ trace' = Append(trace, "schemaIds")
    /\ step' = step + 1
    /\ pc' = AfterStep
    /\ UNCHANGED <<cfDatabase, disk, cfSchemas, existing_specs, imported, i, w, log,
                   attempted, ioFailures, failure, runs, priorDisk, previousRun, editVars, storeVars>>

\* UpdateSchemaIdsConflict with the call in a try block like the two loops:
\* the conflict is logged and the run goes on with the collection it had
UpdateSchemaIdsConflictCaught ==
    /\ pc = "pipeline"
    /\ step <= Len(PipelineSteps)
    /\ PipelineSteps[step] = "schemaIds"
    /\ IdentityConflict(existing_specs, specs)
    /\ trace' = Append(trace, "schemaIds")
    /\ log' = Append(log, LogEntry("Error", "", "identity conflict"))
    /\ step' = step + 1
    /\ pc' = AfterStep
    /\ UNCHANGED <<cfDatabase, disk, minted, cfSchemas, existing_specs, imported,
                   specs, i, w, attempted, ioFailures, failure, runs, priorDisk, previousRun, editVars, storeVars>>

UpdateSchemaIdsConflict ==
    /\ pc = "pipeline"
    /\ step <= Len(PipelineSteps)
    /\ PipelineSteps[step] = "schemaIds"
    /\ IdentityConflict(existing_specs, specs)
    /\ trace' = Append(trace, "schemaIds")
    /\ failure' = "identity conflict"
    /\ pc' = "failed"
    /\ UNCHANGED <<cfDatabase, disk, minted, cfSchemas, existing_specs, imported,
                   specs, i, step, w, log, attempted, ioFailures, runs, priorDisk, previousRun, editVars, storeVars>>

(***************************************************************************)
(* Lines 140-159: emptying the output directory, the write loop with its   *)
(* try/catch, and the report.                                              *)
(***************************************************************************)
\* EmptyDirectory leaving the directory as it is: line 140 left out
EmptyDirectorySkipped ==
    /\ pc = "empty"
    /\ w' = 1
    /\ pc' = "write"
    /\ UNCHANGED <<cfDatabase, disk, minted, cfSchemas, existing_specs, imported, specs,
                   i, step, log, trace, attempted, ioFailures, failure, runs, priorDisk, previousRun, editVars, storeVars>>

EmptyDirectory ==
    /\ pc = "empty"
    /\ disk' = {}
    /\ w' = 1
    /\ pc' = "write"
    /\ UNCHANGED <<cfDatabase, minted, cfSchemas, existing_specs, imported, specs,
                   i, step, log, trace, attempted, ioFailures, failure, runs, priorDisk, previousRun, editVars, storeVars>>

\* line 140 is in no try block: when emptyDirectory throws, the run is rejected,
\* with some of the old artifacts already removed
EmptyDirectoryError ==
    /\ pc = "empty"
    /\ ioFailures < MaxIoFailures
    /\ ioFailures' = ioFailures + 1
    /\ disk' \in SUBSET disk
    /\ failure' = "emptyDirectory"
    /\ pc' = "failed"
    /\ UNCHANGED <<cfDatabase, minted, cfSchemas, existing_specs, imported, specs,
                   i, step, w, log, trace, attempted, runs, priorDisk, previousRun, editVars, storeVars>>

WriteSpec ==
    /\ pc = "write"
    /\ w <= Len(specs)
    /\ disk' = WriteTextFile(disk, Artifact(specs[w]))
    /\ attempted' = attempted \cup {specs[w].name}
    /\ imported' = imported + 1
    /\ w' = w + 1
    /\ UNCHANGED <<cfDatabase, minted, pc, cfSchemas, existing_specs, specs, i, step,
                   log, trace, ioFailures, failure, runs, priorDisk, previousRun, editVars, storeVars>>

\* WriteError without the continue: the failed write is counted as imported
WriteErrorCounted ==
    /\ pc = "write"
    /\ w <= Len(specs)
    /\ ioFailures < MaxIoFailures
    /\ ioFailures' = ioFailures + 1
    /\ attempted' = attempted \cup {specs[w].name}
    /\ log' = Append(log, LogEntry("Error writing to file", specs[w].name, "write failed"))
    /\ imported' = imported + 1
    /\ w' = w + 1
    /\ UNCHANGED <<cfDatabase, disk, minted, pc, cfSchemas, existing_specs,
                   specs, i, step, trace, failure, runs, priorDisk, previousRun, editVars, storeVars>>

\* WriteError with no try block around writeTextFile: the error rejects the run
WriteErrorRethrown ==
    /\ pc = "write"
    /\ w <= Len(specs)
    /\ ioFailures < MaxIoFailures
    /\ ioFailures' = ioFailures + 1
    /\ attempted' = attempted \cup {specs[w].name}
    /\ failure' = "write failed"
    /\ pc' = "failed"
    /\ UNCHANGED <<cfDatabase, disk, minted, cfSchemas, existing_specs, imported,
                   specs, i, step, w, log, trace, runs, priorDisk, previousRun, editVars, storeVars>>

WriteError ==
    /\ pc = "write"
    /\ w <= Len(specs)
    /\ ioFailures < MaxIoFailures
    /\ ioFailures' = ioFailures + 1
    /\ attempted' = attempted \cup {specs[w].name}
    /\ log' = Append(log, LogEntry("Error writing to file", specs[w].name, "write failed"))
    /\ w' = w + 1
    /\ UNCHANGED <<cfDatabase, disk, minted, pc, cfSchemas, existing_specs, imported,
                   specs, i, step, trace, failure, runs, priorDisk, previousRun, editVars, storeVars>>

\* Report giving the number of schemas translated as the number of schemas
ReportOutOfTranslated ==
    /\ pc = "write"
    /\ w > Len(specs)
    /\ log' = Append(log, BuiltEntry(imported,
                                     Len(cfSchemas)
                                       - Cardinality({e \in 1..Len(log) :
                                                        log[e].kind = "Error Building"})))
    /\ pc' = "done"
    /\ UNCHANGED <<cfDatabase, disk, minted, cfSchemas, existing_specs, imported,
                   specs, i, step, w, trace, attempted, ioFailures, failure, runs, priorDisk, previousRun, editVars, storeVars>>

\* Report giving the size of the final collection as the number of schemas
ReportOutOfSpecs ==
    /\ pc = "write"
    /\ w > Len(specs)
    /\ log' = Append(log, BuiltEntry(imported, Len(specs)))
    /\ pc' = "done"
    /\ UNCHANGED <<cfDatabase, disk, minted, cfSchemas, existing_specs, imported,
                   specs, i, step, w, trace, attempted, ioFailures, failure, runs, priorDisk, previousRun, editVars, storeVars>>

Report ==
    /\ pc = "write"
    /\ w > Len(specs)
    /\ log' = Append(log, BuiltEntry(imported, Len(cfSchemas)))
    /\ pc' = "done"
    /\ UNCHANGED <<cfDatabase, disk, minted, cfSchemas, existing_specs, imported,
                   specs, i, step, w, trace, attempted, ioFailures, failure, runs, priorDisk, previousRun, editVars, storeVars>>

\* generateSiSpecs is called again, on the same cfDatabase and on the output
\* directory as the last run left it
Regenerate ==
    /\ pc \in {"done", "failed"}
    /\ runs < MaxRuns
    /\ runs' = runs + 1
    /\ pc' = "start"
    /\ cfSchemas' = <<>>
    /\ existing_specs' = {}
    /\ imported' = 0
    /\ specs' = <<>>
    /\ i' = 1
    /\ step' = 1
    /\ w' = 1
    /\ log' = <<>>
    /\ trace' = <<>>
    /\ attempted' = {}
    /\ failure' = ""
    /\ priorDisk' = disk
    /\ previousRun' = IF disk = priorDisk /\ "schemaIds" \in Range(trace)
                                          /\ failure # "identity conflict"
                       THEN [prior |-> priorDisk,
                             final |-> [k \in 1..Len(specs) |-> Artifact(specs[k])],
                             reconciled |-> TRUE]
                       ELSE [prior |-> {}, final |-> <<>>, reconciled |-> FALSE]
    /\ UNCHANGED <<cfDatabase, disk, minted, ioFailures, editVars, storeVars>>

\* the steps of one call of generateSiSpecs
Run ==
    \/ LoadCfDatabase
    \/ GetExistingSpecs
    \/ BuildSpec
    \/ BuildError
    \/ BuildDone
    \/ GenerateOutputSockets
    \/ AddDefaultPropsAndSockets
    \/ GenerateDefaultActionFuncs
    \/ GenerateDefaultLeafFuncs
    \/ GenerateDefaultManagementFuncs
    \/ GenerateSubAssets
    \/ GenerateIntrinsicFuncs
    \/ CreateInputSockets
    \/ GenerateAssetFuncs
    \/ UpdateSchemaIds
    \/ UpdateSchemaIdsConflict
    \/ EmptyDirectory
    \/ EmptyDirectoryError
    \/ WriteSpec
    \/ WriteError
    \/ Report

Next ==
    \/ Run
    \/ Regenerate

Spec == Init /\ [][Next]_vars

\* one call of generateSiSpecs on a database of WiredDatabases
SpecWired == InitWired /\ [][Run]_vars

\* generateSiSpecs is one async function: every synchronous statement runs to its
\* end and every awaited promise settles, so a run that can take a step takes one
FairWired == SpecWired /\ WF_vars(Run)

(***************************************************************************)
(* removeFromEditField (lines 31-78): the observable it returns, the two   *)
(* sources it combines, the POST and editSessionWritten$.                  *)
(***************************************************************************)
MaxSubscriptions == 2

MaxEmissions == 3

\* EditFieldObjectKind: the two kinds line 39 names and one other
ObjectKinds == {"Component", "ComponentProp", "Schema"}

\* RemoveFromEditFieldArgs, lines 13-19
Args == {[objectKind |-> k, objectId |-> 1] : k \in ObjectKinds}

\* what visibility$ emits
Visibilities == {[visibility_change_set_pk |-> n] : n \in 1..2}

\* what workspace$ emits: a workspace or null
NullWorkspace == [isNull |-> TRUE, id |-> 0]

WorkspaceValues == {NullWorkspace} \cup {[isNull |-> FALSE, id |-> n] : n \in 1..2}

\* lines 45-51: the value returned when there is no workspace
NoWorkspaceError ==
    [error |-> [statusCode |-> 10,
                message |-> "cannot make call without a workspace; bug!",
                code |-> 10]]

\* RemoveFromEditFieldResponse, lines 27-29
Responses == {[success |-> b] : b \in BOOLEAN}

\* Project without the _.isNull test of line 44
ProjectWithoutNullTest(args, vis, ws) ==
    IF args.objectKind \in {"Component", "ComponentProp"} /\ ~ws.isNull
    THEN [request |-> <<[objectKind |-> args.objectKind, objectId |-> args.objectId,
                         visibility_change_set_pk |-> vis.visibility_change_set_pk,
                         workspaceId |-> <<ws.id>>]>>,
          values |-> <<>>]
    ELSE [request |-> <<[objectKind |-> args.objectKind, objectId |-> args.objectId,
                         visibility_change_set_pk |-> vis.visibility_change_set_pk,
                         workspaceId |-> <<>>]>>,
          values |-> <<>>]

\* lines 38-71, the function given to switchMap: the request to post, if any, and
\* the values returned at once; workspaceId is <<>> in a request that has none
Project(args, vis, ws) ==
    IF args.objectKind \in {"Component", "ComponentProp"}
    THEN IF ws.isNull
         THEN [request |-> <<>>, values |-> <<NoWorkspaceError>>]
         ELSE [request |-> <<[objectKind |-> args.objectKind, objectId |-> args.objectId,
                              visibility_change_set_pk |-> vis.visibility_change_set_pk,
                              workspaceId |-> <<ws.id>>]>>,
               values |-> <<>>]
    ELSE [request |-> <<[objectKind |-> args.objectKind, objectId |-> args.objectId,
                         visibility_change_set_pk |-> vis.visibility_change_set_pk,
                         workspaceId |-> <<>>]>>,
          values |-> <<>>]

\* a subscription of the observable removeFromEditField(args) returns: what
\* combineLatest holds of each source, the first pair it combined, where the
\* subscription is and the values it has received
Subscription(args) ==
    [args |-> args, vis |-> <<>>, ws |-> <<>>, first |-> <<>>, state |-> "waiting",
     out |-> <<>>]

\* Listening without take(1): the sources stay subscribed to
ListeningForever(sub) == TRUE

\* line 37, take(1): the sources are unsubscribed from when the first pair came
Listening(sub) == sub.state = "waiting"

\* line 36, combineLatest: the latest value of each source
Received(sub, source, value) ==
    IF source = "visibility" THEN [sub EXCEPT !.vis = <<value>>]
                             ELSE [sub EXCEPT !.ws = <<value>>]

\* combineLatest emits when both sources have emitted
Combines(sub, source, value) ==
    /\ Listening(sub)
    /\ Received(sub, source, value).vis # <<>>
    /\ Received(sub, source, value).ws # <<>>

\* lines 36-76: a subscription when a source emits a value
Deliver(sub, source, value) ==
    IF ~Listening(sub) THEN sub
    ELSE LET r == Received(sub, source, value)
         IN  IF ~Combines(sub, source, value) THEN r
             ELSE LET p == Project(r.args, r.vis[1], r.ws[1])
                  IN  [r EXCEPT !.first = IF @ = <<>> THEN <<r.vis[1], r.ws[1]>> ELSE @,
                                !.state = IF p.request = <<>> THEN "complete"
                                                              ELSE "requested",
                                !.out = @ \o p.values]

\* line 72: sdf.post("edit_field/remove_from_edit_field", request)
PostEvent(s, request) ==
    [kind |-> "POST", sub |-> s, url |-> "edit_field/remove_from_edit_field",
     request |-> <<request>>]

ResponseEvent(s) ==
    [kind |-> "response", sub |-> s, url |-> "edit_field/remove_from_edit_field",
     request |-> <<>>]

\* line 75: editSessionWritten$.next(true)
WrittenEvent(s) ==
    [kind |-> "editSessionWritten", sub |-> s, url |-> "", request |-> <<>>]

\* the POSTs that subscription s sends when a source emits a value
Posted(s, sub, source, value) ==
    IF Combines(sub, source, value)
    THEN LET r == Received(sub, source, value)
             p == Project(r.args, r.vis[1], r.ws[1])
         IN  IF p.request = <<>> THEN <<>> ELSE <<PostEvent(s, p.request[1])>>
    ELSE <<>>

\* generateSiSpecs has not been called and its directory is empty
PipelineUnused ==
    /\ cfDatabase = <<>>
    /\ disk = {}
    /\ minted = 0
    /\ Called

InitEditField ==
    /\ PipelineUnused
    /\ EditFieldUnused
    /\ StoreUnused

\* removeFromEditField(args) is called and its observable subscribed to; a source
\* that has emitted may or may not replay its last value to the new subscriber,
\* visibility$ first
Subscribe ==
    /\ Len(subscriptions) < MaxSubscriptions
    /\ \E args \in Args, replayVisibility \in BOOLEAN, replayWorkspace \in BOOLEAN :
          LET s == Len(subscriptions) + 1
              fresh == Subscription(args)
              seeing == IF replayVisibility /\ visibility # <<>>
                        THEN Deliver(fresh, "visibility", visibility[1])
                        ELSE fresh
              replayed == replayWorkspace /\ workspace # <<>>
          IN  /\ subscriptions' = Append(subscriptions,
                                         IF replayed
                                         THEN Deliver(seeing, "workspace", workspace[1])
                                         ELSE seeing)
              /\ events' = Append(events,
                                  IF replayed
                                  THEN Posted(s, seeing, "workspace", workspace[1])
                                  ELSE <<>>)
    /\ UNCHANGED <<visibility, workspace, emissions, pipelineVars, storeVars>>

\* visibility$ emits a value to its subscribers
EmitVisibility ==
    /\ emissions < MaxEmissions
    /\ \E value \in Visibilities :
          /\ visibility' = <<value>>
          /\ subscriptions' = [s \in 1..Len(subscriptions) |->
                                  Deliver(subscriptions[s], "visibility", value)]
          /\ events' = [s \in 1..Len(subscriptions) |->
                           events[s] \o Posted(s, subscriptions[s], "visibility", value)]
    /\ emissions' = emissions + 1
    /\ UNCHANGED <<workspace, pipelineVars, storeVars>>

\* workspace$ emits a workspace or null to its subscribers
EmitWorkspace ==
    /\ emissions < MaxEmissions
    /\ \E value \in WorkspaceValues :
          /\ workspace' = <<value>>
          /\ subscriptions' = [s \in 1..Len(subscriptions) |->
                                  Deliver(subscriptions[s], "workspace", value)]
          /\ events' = [s \in 1..Len(subscriptions) |->
                           events[s] \o Posted(s, subscriptions[s], "workspace", value)]
    /\ emissions' = emissions + 1
    /\ UNCHANGED <<visibility, pipelineVars, storeVars>>

\* lines 72-76: the response to the POST arrives, tap pushes true to
\* editSessionWritten$ and the subscriber receives the response
Respond ==
    /\ \E s \in 1..Len(subscriptions), response \in Responses :
          /\ subscriptions[s].state = "requested"
          /\ subscriptions' = [subscriptions EXCEPT ![s].state = "complete",
                                                    ![s].out = Append(@, response)]
          /\ events' = [events EXCEPT ![s] = @ \o <<ResponseEvent(s), WrittenEvent(s)>>]
    /\ UNCHANGED <<visibility, workspace, emissions, pipelineVars, storeVars>>

\* the POST fails without a response: the observable of sdf.post errors and tap
\* is not run
PostError ==
    /\ \E s \in 1..Len(subscriptions) :
          /\ subscriptions[s].state = "requested"
          /\ subscriptions' = [subscriptions EXCEPT ![s].state = "errored"]
    /\ UNCHANGED <<visibility, workspace, events, emissions, pipelineVars, storeVars>>

NextEditField ==
    \/ Subscribe
    \/ EmitVisibility
    \/ EmitWorkspace
    \/ Respond
    \/ PostError

SpecEditField == InitEditField /\ [][NextEditField]_vars

(***************************************************************************)
(* useWorkspacesStore (workspaces.store.ts, lines 35-176).  An object      *)
(* keyed by strings is the sequence of its entries, in the order in which  *)
(* the keys were first set, which is the order _.values reads them in.     *)
(***************************************************************************)
MaxResponse == 2

\* Workspace, lines 10-25: the fields the store reads
Workspace(id, creator, default, env, at) ==
    [id |-> id, creatorUserId |-> creator, isDefault |-> default,
     instanceEnvType |-> env, createdAt |-> at]

\* the workspaces a response may hold: of the signed-in user u1 and of u2, marked
\* as default or not, in production (SI) or not, created at instant 1 or 2
Workspaces ==
    {Workspace(id, p[1], p[2], p[3], p[4]) :
        id \in {"w1", "w2"},
        p \in {<<"u1", TRUE, "LOCAL", 2>>, <<"u1", FALSE, "SI", 1>>,
               <<"u1", FALSE, "SI", 2>>, <<"u1", FALSE, "REMOTE", 1>>,
               <<"u2", TRUE, "SI", 1>>}}

\* WorkspaceMember, lines 27-33
WorkspaceMember(userId, role) ==
    [userId |-> userId, nickname |-> userId, email |-> userId, role |-> role,
     signupAt |-> "2024-01-01"]

WorkspaceMembers ==
    {WorkspaceMember("u1", "OWNER"), WorkspaceMember("u2", "EDITOR"),
     WorkspaceMember("u2", "OWNER")}

\* the arrays of at most MaxResponse elements of a set
Arrays(set) == UNION {[1..n -> set] : n \in 0..MaxResponse}

\* a string, as a value that has no properties of its own
String(text) == [text |-> text]

\* the values of the own properties of a member, in the order of lines 28-32
PropertyValues(member) ==
    <<String(member.userId), String(member.nickname), String(member.email),
      String(member.role), String(member.signupAt)>>

\* value[property] of JavaScript: "undefined" where there is no such property
Property(value, property) ==
    IF property \in DOMAIN value THEN value[property] ELSE "undefined"

\* result[key] = value: a key keeps the place where it was first set
Assign(object, key, value) ==
    IF \E n \in 1..Len(object) : object[n].key = key
    THEN [n \in 1..Len(object) |->
             IF object[n].key = key THEN [key |-> key, value |-> value] ELSE object[n]]
    ELSE Append(object, [key |-> key, value |-> value])

RECURSIVE KeyByFrom(_, _, _, _)
KeyByFrom(values, property, n, object) ==
    IF n > Len(values) THEN object
    ELSE KeyByFrom(values, property, n + 1,
                   Assign(object, Property(values[n], property), values[n]))

\* _.keyBy(values, (v) => v[property]) on the values of a collection
KeyBy(values, property) == KeyByFrom(values, property, 1, <<>>)

\* _.values(object)
Values(object) == [n \in 1..Len(object) |-> object[n].value]

\* _.head(array): <<>> for undefined
HeadOf(array) == IF array = <<>> THEN <<>> ELSE <<array[1]>>

\* _.sortBy(array, (w) => w.createdAt): a stable sort
RECURSIVE SortByCreatedAt(_)
SortByCreatedAt(array) ==
    IF array = <<>> THEN <<>>
    ELSE LET first == CHOOSE n \in 1..Len(array) :
                          /\ \A m \in 1..Len(array) : array[n].createdAt <= array[m].createdAt
                          /\ \A m \in 1..(n - 1) : array[m].createdAt # array[n].createdAt
             rest == [m \in 1..(Len(array) - 1) |-> IF m < first THEN array[m] ELSE array[m + 1]]
         IN  <<array[first]>> \o SortByCreatedAt(rest)

\* authStore.user?.id
UserId == IF user = <<>> THEN "undefined" ELSE user[1].id

\* defaultWorkspace without the _.sortBy of line 59
defaultWorkspaceUnsorted ==
    LET IsDefault(ws) == ws.isDefault /\ ws.creatorUserId = UserId
        IsProduction(ws) == ws.creatorUserId = UserId /\ ws.instanceEnvType = "SI"
        default == HeadOf(SelectSeq(Values(workspacesById), IsDefault))
        firstProductionWorkspace == HeadOf(SelectSeq(Values(workspacesById), IsProduction))
    IN  IF default # <<>> THEN default
        ELSE IF firstProductionWorkspace # <<>> THEN firstProductionWorkspace
        ELSE <<>>

\* lines 45-74, the getter: <<w>> for a workspace w, <<>> for null
defaultWorkspace ==
    LET IsDefault(ws) == ws.isDefault /\ ws.creatorUserId = UserId
        IsProduction(ws) == ws.creatorUserId = UserId /\ ws.instanceEnvType = "SI"
        default == HeadOf(SelectSeq(Values(workspacesById), IsDefault))
        firstProductionWorkspace ==
            HeadOf(SortByCreatedAt(SelectSeq(Values(workspacesById), IsProduction)))
    IN  IF default # <<>> THEN default
        ELSE IF firstProductionWorkspace # <<>> THEN firstProductionWorkspace
        ELSE <<>>

\* the store as defineStore creates it; somebody, u1, is signed in or nobody is
InitStore ==
    /\ PipelineUnused
    /\ EditFieldUnused
    /\ user \in {<<>>, <<[id |-> "u1"]>>}
    /\ workspacesById = <<>>
    /\ selectedWorkspaceMembersById = <<>>

\* lines 77-84
LOAD_WORKSPACES ==
    /\ \E response \in Arrays(Workspaces) : workspacesById' = KeyBy(response, "id")
    /\ UNCHANGED <<user, selectedWorkspaceMembersById, pipelineVars, editVars>>

\* lines 85-95
LOAD_WORKSPACE_MEMBERS ==
    /\ \E response \in Arrays(WorkspaceMembers) :
          selectedWorkspaceMembersById' = KeyBy(response, "userId")
    /\ UNCHANGED <<user, workspacesById, pipelineVars, editVars>>

\* lines 96-108
CREATE_WORKSPACE ==
    /\ \E response \in {[workspaces |-> a, newWorkspaceId |-> "w1"] : a \in Arrays(Workspaces)} :
          workspacesById' = KeyBy(response.workspaces, "id")
    /\ UNCHANGED <<user, selectedWorkspaceMembersById, pipelineVars, editVars>>

\* lines 109-119: no onSuccess
SETUP_PRODUCTION_WORKSPACE ==
    /\ \E response \in {[newWorkspace |-> a] : a \in Workspaces} :
          UNCHANGED <<workspacesById, selectedWorkspaceMembersById>>
    /\ UNCHANGED <<user, pipelineVars, editVars>>

\* lines 121-129: onSuccess does nothing
DELETE_WORKSPACE ==
    /\ \E workspaceId \in {"w1", "w2"} :
          UNCHANGED <<workspacesById, selectedWorkspaceMembersById>>
    /\ UNCHANGED <<user, pipelineVars, editVars>>

\* lines 131-140
EDIT_WORKSPACE ==
    /\ \E response \in Arrays(Workspaces) : workspacesById' = KeyBy(response, "id")
    /\ UNCHANGED <<user, selectedWorkspaceMembersById, pipelineVars, editVars>>

\* lines 142-158: the response is one WorkspaceMember (line 146), and _.keyBy
\* of an object goes over the values of its properties
INVITE_USER ==
    /\ \E response \in WorkspaceMembers :
          selectedWorkspaceMembersById' = KeyBy(PropertyValues(response), "userId")
    /\ UNCHANGED <<user, workspacesById, pipelineVars, editVars>>

\* lines 160-174
REMOVE_USER ==
    /\ \E response \in Arrays(WorkspaceMembers) :
          selectedWorkspaceMembersById' = KeyBy(response, "userId")
    /\ UNCHANGED <<user, workspacesById, pipelineVars, editVars>>

NextStore ==
    \/ LOAD_WORKSPACES
    \/ LOAD_WORKSPACE_MEMBERS
    \/ CREATE_WORKSPACE
    \/ SETUP_PRODUCTION_WORKSPACE
    \/ DELETE_WORKSPACE
    \/ EDIT_WORKSPACE
    \/ INVITE_USER
    \/ REMOVE_USER

SpecStore == InitStore /\ [][NextStore]_vars

(***************************************************************************)
(* Properties of generateSiSpecs.                                          *)
(***************************************************************************)
\* the steps as the specification orders them (section 2, control flow)
SpecifiedOrder ==
    << "outputSockets", "defaults", "actionFuncs", "leafFuncs", "managementFuncs",
       "subAssets", "intrinsicFuncs", "inputSockets", "assetFuncs", "schemaIds" >>

IsPrefix(a, b) == Len(a) <= Len(b) /\ \A k \in 1..Len(a) : a[k] = b[k]

\* the reconciler has returned and the run goes on to emission
Reconciled == pc \in {"empty", "write", "done"} \/ failure = "emptyDirectory"

Emitting == pc \in {"write", "done"}

DistinctIds(coll) == \A a, b \in coll : a.name # b.name => a.schemaId # b.schemaId

\* C1: identity stability.  Once the reconciler has returned, every spec
\* whose name had an artifact in the output directory when the run started
\* carries that artifact's schemaId, and so does every artifact the run
\* writes; this holds in every run of a sequence of regenerations.
C1_IdentityStability ==
    /\ Reconciled =>
          \A k \in 1..Len(specs) : \A p \in priorDisk :
              p.name = specs[k].name => specs[k].schemaId = p.schemaId
    /\ Emitting =>
          \A a \in disk : \A p \in priorDisk :
              p.name = a.name => a.schemaId = p.schemaId

C1_Witness ==
    /\ pc = "done"
    /\ runs = 2
    /\ \E a \in disk : \E p \in priorDisk :
          /\ a.parent = ""
          /\ p.name = a.name
          /\ p.schemaId = a.schemaId
          /\ a.schemaId # 0

\* C2: a schemaId is never shared.  In the collection the reconciler returns
\* every spec has a schemaId and no two specs have the same one; the output
\* directory never holds one schemaId under two names; a schemaId that is
\* not taken from a previous artifact differs from every schemaId of the
\* previous artifacts; and a spec carries a previous artifact's schemaId only
\* when that artifact has its name, or is of a type that is gone and has the
\* same structural fingerprint.
C2_SchemaIdNeverShared ==
    /\ DistinctIds(disk)
    /\ Reconciled =>
          /\ \A k \in 1..Len(specs) : specs[k].schemaId # 0
          /\ DistinctIds(Range(specs))
          /\ \A k \in 1..Len(specs) : \A p \in priorDisk :
                p.schemaId = specs[k].schemaId =>
                    \/ p.name = specs[k].name
                    \/ /\ p.name \notin Names(specs)
                       /\ Fingerprint(p) = Fingerprint(specs[k])
          /\ \A k \in 1..Len(specs) :
                MatchOf(priorDisk, specs, specs[k]) = {} =>
                    \A p \in priorDisk : p.schemaId # specs[k].schemaId

C2_Witness ==
    /\ pc = "done"
    /\ \E j, k \in 1..Len(specs) :
          /\ j # k
          /\ MatchOf(priorDisk, specs, specs[j]) = {}
          /\ \E p \in priorDisk : p.schemaId = specs[k].schemaId /\ p.name # specs[k].name

\* C3: an identity conflict ends the run in failure.  The run is rejected,
\* no spec of the collection has been given a schemaId, nothing has been
\* handed to the writer, the output directory is as the run found it, and no
\* "built N out of M" entry is printed; a run that goes on to emission has
\* no conflict in its collection.
C3_ConflictIsFatal ==
    /\ failure = "identity conflict" =>
          /\ pc = "failed"
          /\ \A k \in 1..Len(specs) : specs[k].schemaId = 0
          /\ attempted = {}
          /\ imported = 0
          /\ disk = priorDisk
          /\ \A k \in 1..Len(log) : log[k].kind # "built"
    /\ Reconciled => ~IdentityConflict(priorDisk, specs)

C3_Witness ==
    /\ failure = "identity conflict"
    /\ pc = "failed"
    /\ Len(specs) >= 2
    /\ disk # {}

\* C4: the steps run once each, in the specified order, and emission comes
\* after all of them.  The steps called so far in a run are a prefix of the
\* specified order, and when the output directory is about to be emptied, or
\* anything has been written, all ten have been called.
C4_StagesInOrder ==
    /\ IsPrefix(trace, SpecifiedOrder)
    /\ (Reconciled \/ attempted # {}) => trace = SpecifiedOrder

C4_Witness ==
    /\ pc = "done"
    /\ trace = SpecifiedOrder
    /\ attempted # {}
    /\ imported >= 2

\* C5: hard barrier.  When a step is about to run, each step before it has
\* been applied to every spec of the collection it is given: to every
\* originally loaded spec for the steps up to the management functions, and
\* to every spec, sub-assets included, from sub-asset extraction on.
C5_HardBarrier ==
    (pc \in {"pipeline", "empty", "write", "done"}) =>
        \A j \in 1..(step - 1) : \A k \in 1..Len(specs) :
            (specs[k].parent = "" \/ j >= 6) => SpecifiedOrder[j] \in specs[k].seen

C5_Witness ==
    /\ pc = "pipeline"
    /\ step = 8
    /\ \E k \in 1..Len(specs) :
          /\ specs[k].parent # ""
          /\ {"subAssets", "intrinsicFuncs"} \subseteq specs[k].seen
    /\ \E k \in 1..Len(specs) : specs[k].parent = ""

\* the log entries of one kind, in the order they were printed
Entries(kind) == LET Is(e) == e.kind = kind IN SelectSeq(log, Is)

\* the schemas among the first n of cfSchemas whose translation fails
FailedSchemas(n) ==
    LET Fails(c) == SchemaTranslationError(c) IN SelectSeq(SubSeq(cfSchemas, 1, n), Fails)

BuiltSchemas(n) ==
    LET Builds(c) == ~SchemaTranslationError(c) IN SelectSeq(SubSeq(cfSchemas, 1, n), Builds)

\* the specs of the collection that came from a raw schema
Originals == LET IsOriginal(sp) == sp.parent = "" IN SelectSeq(specs, IsOriginal)

InBuildLoop == pc = "build"

PastBuildLoop == pc \in {"pipeline", "empty", "write", "done", "failed"}

C8_RunSummary ==
    (pc = "done") =>
        /\ Len(Entries("built")) = 1
        /\ log[Len(log)].kind = "built"
        /\ log[Len(log)].outOf = Len(cfDatabase)
        /\ log[Len(log)].built = Cardinality(disk)
        /\ \A k \in 1..Len(cfDatabase) :
              SchemaTranslationError(cfDatabase[k]) =>
                  \E e \in Range(Entries("Error Building")) :
                      e.name = cfDatabase[k].typeName /\ e.reason # ""
        /\ \A k \in 1..Len(specs) :
              specs[k].name \notin {a.name : a \in disk} =>
                  \E e \in Range(Entries("Error writing to file")) :
                      e.name = specs[k].name /\ e.reason # ""

C8_Witness ==
    /\ pc = "done"
    /\ Len(Entries("Error Building")) >= 1
    /\ Len(Entries("Error writing to file")) >= 1
    /\ log[Len(log)].built = 1
    /\ log[Len(log)].outOf = 2

\* the read-only or primary-identifier properties of a spec that are no scalars
NonScalarOutputs(spec) ==
    {k \in 1..Len(spec.props) :
        IsOutputProp(spec.props[k]) /\ spec.props[k].kind \notin ScalarKinds}

C10_SubAssetsFlowThrough ==
    /\ Reconciled =>
          \A k \in 1..Len(specs) :
              /\ IntrinsicFuncs \subseteq specs[k].funcs
              /\ Func("Asset", "main") \in specs[k].funcs
              /\ specs[k].assetSrc = AssetSource(specs[k])
              /\ specs[k].schemaId # 0
              /\ {"intrinsicFuncs", "inputSockets", "assetFuncs", "schemaIds"}
                     \subseteq specs[k].seen
    /\ (pc = "done") => \A k \in 1..Len(specs) : specs[k].name \in attempted

C10_Witness ==
    /\ pc = "done"
    /\ \E k \in 1..Len(specs) :
          /\ specs[k].parent # ""
          /\ IntrinsicFuncs \subseteq specs[k].funcs
          /\ specs[k].schemaId # 0
          /\ specs[k].name \in {a.name : a \in disk}
    /\ \E k \in 1..Len(specs) : specs[k].parent = ""

(***************************************************************************)
(* C11.  On a match, every function the previous spec's user wrote is in   *)
(* the final spec and the generated default it stands for is not; a        *)
(* default no user function stands for is kept.                            *)
(***************************************************************************)
DefaultFuncs == ActionFuncs \cup LeafFuncs \cup ManagementFuncs

UserFuncsOf(artifact) == {f \in artifact.funcs : f.by = "user"}

C11_UserFunctionsPreserved ==
    Reconciled =>
        \A k \in 1..Len(specs) :
            \A p \in MatchOf(priorDisk, specs, specs[k]) :
                /\ UserFuncsOf(p) \subseteq specs[k].funcs
                /\ \A u \in UserFuncsOf(p) : Func(u.kind, u.name) \notin specs[k].funcs
                /\ specs[k].parent = "" =>
                       \A d \in DefaultFuncs :
                           (\A u \in UserFuncsOf(p) : u.kind # d.kind \/ u.name # d.name)
                               => d \in specs[k].funcs

\* a finished run in which a renamed type kept the create action its user wrote
C11_Witness ==
    /\ pc = "done"
    /\ \E k \in 1..Len(specs) :
          /\ \E p \in MatchOf(priorDisk, specs, specs[k]) :
                 UserFunc("Action", "create") \in p.funcs /\ p.name # specs[k].name
          /\ UserFunc("Action", "create") \in specs[k].funcs
          /\ Func("Action", "create") \notin specs[k].funcs
          /\ Func("Action", "delete") \in specs[k].funcs

(***************************************************************************)
(* C12.  No dangling wiring: from the resolver on, every input socket the  *)
(* resolver created has exactly one output socket of its name and type, on *)
(* another spec of the collection.                                         *)
(***************************************************************************)
Resolved == "inputSockets" \in Range(trace)

\* the specs other than specs[k] with an output socket of the name and type of sock
Providers(k, sock) ==
    {j \in (1..Len(specs)) \ {k} :
        \E m \in 1..Len(specs[j].sockets) :
            /\ specs[j].sockets[m].name = sock.name
            /\ specs[j].sockets[m].type = sock.type
            /\ specs[j].sockets[m].direction = "Output"}

\* the input sockets of a spec that are not the platform's default socket
ResolverSockets(spec) ==
    {sock \in Range(spec.sockets) : sock.direction = "Input" /\ sock # DefaultSocket}

C12_NoDanglingWiring ==
    Resolved =>
        \A k \in 1..Len(specs) :
            \A sock \in ResolverSockets(specs[k]) :
                /\ Cardinality(Providers(k, sock)) = 1
                /\ \A j \in Providers(k, sock) :
                       Cardinality({m \in 1..Len(specs[j].sockets) :
                                       /\ specs[j].sockets[m].name = sock.name
                                       /\ specs[j].sockets[m].direction = "Output"}) = 1

\* a final collection in which a role is wired to the one queue, while the
\* string id another spec depends on is offered only as a number
C12_Witness ==
    /\ Reconciled
    /\ \E k, j \in 1..Len(specs) :
          /\ Socket("QueueArn", "String", "Input") \in ResolverSockets(specs[k])
          /\ Socket("Id", "Number", "Output") \in Range(specs[k].sockets)
          /\ \E m \in 1..Len(specs[j].props) :
                 specs[j].props[m].name = "id" /\ specs[j].props[m].kind = "String"
          /\ ResolverSockets(specs[j]) = {}

(***************************************************************************)
(* C13.  When more than one output socket qualifies for a dependency, the  *)
(* resolver creates no input socket for it and a warning names the spec:   *)
(* it never picks one of the candidates.                                   *)
(***************************************************************************)
\* the writable scalar properties of specs[k] that several other specs offer
AmbiguousDependencies(k) ==
    {p \in Range(specs[k].props) :
        /\ ~p.readOnly /\ ~p.primaryIdentifier
        /\ p.kind \in {"String", "Number", "Boolean"}
        /\ Cardinality(Providers(k, [name |-> NormalizeName(p.name), type |-> p.kind])) > 1}

C13_AmbiguityNeverGuessed ==
    Resolved =>
        \A k \in 1..Len(specs) :
            \A p \in AmbiguousDependencies(k) :
                /\ \A sock \in Range(specs[k].sockets) :
                       ~(sock.direction = "Input" /\ sock.name = NormalizeName(p.name))
                /\ \E e \in 1..Len(log) :
                       /\ log[e].kind = "warning"
                       /\ log[e].name = specs[k].name
                       /\ log[e].reason = "ambiguous socket match"

\* a finished run in which two specs offered the queue ARN a role depends on
C13_Witness ==
    /\ pc = "done"
    /\ \E k \in 1..Len(specs) :
          /\ AmbiguousDependencies(k) # {}
          /\ ResolverSockets(specs[k]) = {}

(***************************************************************************)
(* C14.  Sub-asset deduplication: from the extractor on, no two sub-assets *)
(* of the collection have the same shape, and every nested shape of a      *)
(* translated schema, whatever its path and its parent, is a reference to  *)
(* the one sub-asset of that shape.                                        *)
(***************************************************************************)
Extracted == "subAssets" \in Range(trace)

SubAssets == {k \in 1..Len(specs) : specs[k].parent # ""}

\* the nested shapes of the translated schemas: <<schema, property>>
NestedOccurrences ==
    UNION { { <<k, j>> : j \in {j \in 1..Len(cfSchemas[k].properties) :
                                   /\ cfSchemas[k].properties[j].kind \in {"object", "array"}
                                   /\ Len(cfSchemas[k].properties[j].properties)
                                          >= SubAssetMinFields} } :
            k \in {k \in 1..Len(cfSchemas) : cfSchemas[k].typeName \in Names(specs)} }

\* the sub-assets whose properties are these raw fields, name for name, kind for kind
SubAssetsOfShape(fields) ==
    {k \in SubAssets :
        /\ Len(specs[k].props) = Len(fields)
        /\ \A m \in 1..Len(fields) :
               /\ specs[k].props[m].name = fields[m].name
               /\ specs[k].props[m].kind = PropKind(fields[m].kind)}

C14_SubAssetDeduplication ==
    Extracted =>
        /\ \A a, b \in 1..Len(specs) : a # b => specs[a].name # specs[b].name
        /\ \A oc \in NestedOccurrences :
               LET fields == cfSchemas[oc[1]].properties[oc[2]].properties
               IN  /\ Cardinality(SubAssetsOfShape(fields)) = 1
                   /\ \A o \in 1..Len(specs) :
                          specs[o].name = cfSchemas[oc[1]].typeName =>
                              /\ specs[o].props[oc[2]].kind = "Ref"
                              /\ \A k \in SubAssetsOfShape(fields) :
                                     specs[o].props[oc[2]].ref = specs[k].name

\* a final collection in which one shape is found at two paths of one spec and in
\* another spec, next to a shape of its own
C14_Witness ==
    /\ Reconciled
    /\ Cardinality(SubAssets) = 2
    /\ \E a, b \in 1..Len(specs) :
          /\ a # b
          /\ Cardinality({m \in 1..Len(specs[a].props) :
                              specs[a].props[m].ref = "RedrivePolicyShape"}) = 2
          /\ \E m \in 1..Len(specs[b].props) : specs[b].props[m].ref = "RedrivePolicyShape"
    /\ Cardinality(NestedOccurrences) = 4

(***************************************************************************)
(* C15.  Determinism.  SameInputsAgain: this run has reconciled, the run   *)
(* before it had too, and both started from the same output directory (the *)
(* database is the same in every run of a behaviour).                      *)
(***************************************************************************)
SameInputsAgain ==
    /\ runs > 1
    /\ Reconciled
    /\ previousRun.reconciled
    /\ previousRun.prior = priorDisk

FinalCollection == [k \in 1..Len(specs) |-> Artifact(specs[k])]

WithoutSchemaId(artifact) == [artifact EXCEPT !.schemaId = 0]

PositionOf(name) == CHOOSE k \in 1..Len(cfDatabase) : cfDatabase[k].typeName = name

Translatable == {k \in 1..Len(cfDatabase) : ~SchemaTranslationError(cfDatabase[k])}

EnteringFirstStep == pc = "pipeline" /\ step = 1

C16_EntryOrderFromInputAlone ==
    /\ EnteringFirstStep =>
          /\ Len(specs) = Cardinality(Translatable)
          /\ \A a \in 1..Len(specs) :
                 /\ specs[a].name \in {cfDatabase[k].typeName : k \in Translatable}
                 /\ specs[a] = pkgSpecFromCf(cfDatabase[PositionOf(specs[a].name)])
          /\ \A a, b \in 1..Len(specs) :
                 a < b => PositionOf(specs[a].name) < PositionOf(specs[b].name)
    /\ Extracted =>
          \A oc \in NestedOccurrences :
              \A k \in SubAssetsOfShape(cfSchemas[oc[1]].properties[oc[2]].properties) :
                  PositionOf(specs[k].parent) <= oc[1]

\* three schemas of which the first cannot be translated and the other two share
\* a nested shape: the sub-asset has the second schema for parent
C16_Witness ==
    /\ Extracted
    /\ Len(cfDatabase) = 3
    /\ Translatable = {2, 3}
    /\ \E k \in SubAssets :
          /\ specs[k].parent = cfDatabase[2].typeName
          /\ \E j \in 1..Len(specs) :
                 /\ specs[j].name = cfDatabase[3].typeName
                 /\ \E m \in 1..Len(specs[j].props) : specs[j].props[m].ref = specs[k].name

(***************************************************************************)
(* C17.  The Default Augmenter and the Intrinsic Function Attacher are     *)
(* idempotent on every collection the run holds, whatever functions its    *)
(* specs carry: applied twice they give what they give applied once, with  *)
(* no property, socket or intrinsic function twice under one name.         *)
(***************************************************************************)
NoDuplicateNames(seq) == \A a, b \in 1..Len(seq) : a # b => seq[a].name # seq[b].name

InputsOf(spec) == LET IsInput(sock) == sock.direction = "Input" IN SelectSeq(spec.sockets, IsInput)

C17_AugmenterAndIntrinsicsIdempotent ==
    LET once  == addDefaultPropsAndSockets(specs)
        twice == addDefaultPropsAndSockets(once)
        intrinsicsOnce  == generateIntrinsicFuncs(specs)
        intrinsicsTwice == generateIntrinsicFuncs(intrinsicsOnce)
    IN  /\ twice = once
        /\ \A k \in 1..Len(twice) :
               /\ NoDuplicateNames(twice[k].props)
               /\ NoDuplicateNames(InputsOf(twice[k]))
        /\ intrinsicsTwice = intrinsicsOnce
        /\ \A k \in 1..Len(intrinsicsTwice) :
               \A f, g \in intrinsicsTwice[k].funcs :
                   (f.kind = "Intrinsic" /\ g.kind = "Intrinsic" /\ f.name = g.name) => f = g

\* a reconciled collection of a spec with its defaults, its intrinsic functions and
\* a function its user wrote, and a sub-asset that has no defaults
C17_Witness ==
    /\ Reconciled
    /\ \E k \in 1..Len(specs) :
          /\ DefaultProp \in Range(specs[k].props)
          /\ DefaultSocket \in Range(specs[k].sockets)
          /\ IntrinsicFuncs \subseteq specs[k].funcs
          /\ UserFuncsOf(specs[k]) # {}
    /\ \E k \in SubAssets : DefaultProp \notin Range(specs[k].props)
    /\ addDefaultPropsAndSockets(specs) # specs

(***************************************************************************)
(* C18.  At every point of the run the socket names of a spec are unique   *)
(* per direction; and from the deriver on, of the read-only or primary-id  *)
(* scalar properties of a schema whose paths normalize to one socket name, *)
(* the one declared last gives the spec its one output socket of the name. *)
(***************************************************************************)
OutputsOf(spec) ==
    LET IsOutput(sock) == sock.direction = "Output" IN SelectSeq(spec.sockets, IsOutput)

Derived == "outputSockets" \in Range(trace)

\* the properties of a raw schema from which an output socket of name n is derived
DerivedFrom(cfSchema, n) ==
    {j \in 1..Len(cfSchema.properties) :
        /\ cfSchema.properties[j].readOnly \/ cfSchema.properties[j].primaryIdentifier
        /\ cfSchema.properties[j].kind \in {"string", "number", "integer", "boolean"}
        /\ NormalizeName(cfSchema.properties[j].name) = n}

LastOf(S) == CHOOSE j \in S : \A m \in S : m <= j

C18_SocketNamesUnique ==
    /\ \A k \in 1..Len(specs) :
          NoDuplicateNames(InputsOf(specs[k])) /\ NoDuplicateNames(OutputsOf(specs[k]))
    /\ Derived =>
          \A c \in 1..Len(cfSchemas) : \A k \in 1..Len(specs) :
              specs[k].name = cfSchemas[c].typeName =>
                  \A j \in 1..Len(cfSchemas[c].properties) :
                      LET n == NormalizeName(cfSchemas[c].properties[j].name)
                          from == DerivedFrom(cfSchemas[c], n)
                      IN  from # {} =>
                              {sock \in Range(specs[k].sockets) :
                                   sock.name = n /\ sock.direction = "Output"}
                                = {Socket(n, PropKind(cfSchemas[c].properties[LastOf(from)].kind),
                                          "Output")}

\* a final collection with a spec of two read-only properties, queueArn and then
\* QueueArn, whose one output socket QueueArn has the type of the second
C18_Witness ==
    /\ Reconciled
    /\ \E c \in 1..Len(cfSchemas) : \E k \in 1..Len(specs) :
          /\ specs[k].name = cfSchemas[c].typeName
          /\ Cardinality(DerivedFrom(cfSchemas[c], "QueueArn")) = 2
          /\ Len(OutputsOf(specs[k])) = 1
          /\ OutputsOf(specs[k])[1] = Socket("QueueArn", "String", "Output")

(***************************************************************************)
(* C19.  Termination.  SelfContaining: the raw schema has a property or a  *)
(* nested field that refers to the schema enclosing it.                    *)
(***************************************************************************)
SelfContaining(cfSchema) ==
    \E k \in 1..Len(cfSchema.properties) :
        \/ cfSchema.properties[k].kind = "self"
        \/ \E j \in 1..Len(cfSchema.properties[k].properties) :
               cfSchema.properties[k].properties[j].kind = "self"

\* no spec of the collection is the translation of a schema that contains itself
NoEndlessDraft ==
    \A k \in 1..Len(cfSchemas) :
        SelfContaining(cfSchemas[k]) => cfSchemas[k].typeName \notin Names(specs)

C20_SubAssetsWithoutDefaults ==
    /\ Extracted =>
          \A k \in SubAssets :
              /\ specs[k].funcs \cap DefaultFuncs = {}
              /\ \A f \in specs[k].funcs : f.kind \notin {"Action", "Leaf", "Management"}
              /\ DefaultProp.name \notin Names(specs[k].props)
              /\ DefaultSocket.name \notin Names(specs[k].sockets)
    /\ Reconciled =>
          \A k \in SubAssets :
              specs[k].funcs = IntrinsicFuncs \cup {Func("Asset", "main")}

\* a final collection of a spec with every default and the sub-asset taken from it
C20_Witness ==
    /\ Reconciled
    /\ \E k \in SubAssets : \E o \in 1..Len(specs) :
          /\ specs[o].name = specs[k].parent
          /\ DefaultFuncs \subseteq specs[o].funcs
          /\ DefaultProp.name \in Names(specs[o].props)
          /\ DefaultSocket.name \in Names(specs[o].sockets)
          /\ specs[k].assetSrc # <<>>

(***************************************************************************)
(* C21.  The I/O is at the edges of the run.  Until the ten steps have     *)
(* all returned the output directory is as the run found it, and it stays  *)
(* so when the reconciler rejects the run; what the steps work with as the *)
(* previously emitted specs is the directory as it was before it was       *)
(* emptied; and the directory is emptied or written only after the ten     *)
(* steps.                                                                  *)
(***************************************************************************)
BeforeEmission == pc \in {"start", "getExisting", "build", "pipeline"}

C21_PriorSpecsReadBeforeEmptying ==
    /\ (BeforeEmission \/ failure = "identity conflict") => disk = priorDisk
    /\ pc \notin {"start", "getExisting"} => existing_specs = priorDisk
    /\ (disk # priorDisk \/ pc \in {"write", "done"}) =>
          /\ trace = SpecifiedOrder
          /\ failure # "identity conflict"
          /\ \A k \in 1..Len(specs) : "schemaIds" \in specs[k].seen

\* the output directory has just been emptied: the run still holds the specs
\* that were in it, and a spec of the collection has a schemaId from them
C21_Witness ==
    /\ pc = "write"
    /\ w = 1
    /\ disk = {}
    /\ existing_specs # {}
    /\ existing_specs = priorDisk
    /\ \E k \in 1..Len(specs) : \E p \in existing_specs :
          specs[k].schemaId = p.schemaId

(***************************************************************************)
(* C22.  The report "built N out of M".  During the write loop imported is *)
(* the number of specs, sub-assets included, whose artifact has been       *)
(* written; the report gives that number as N when the loop has ended, and *)
(* as M the number of raw schemas loaded, translated or not.               *)
(***************************************************************************)
\* the specs among the first n of the collection whose artifact is in the directory
WrittenUpTo(n) == {k \in 1..n : Artifact(specs[k]) \in disk}

C22_BuiltNOutOfM ==
    /\ Emitting => imported = Cardinality(WrittenUpTo(w - 1))
    /\ (pc = "done") =>
          /\ log[Len(log)] = BuiltEntry(Cardinality(WrittenUpTo(Len(specs))), Len(cfDatabase))
          /\ log[Len(log)].built
                = Len(specs) - Cardinality({k \in 1..Len(specs) :
                                              \E e \in 1..Len(log) :
                                                  /\ log[e].kind = "Error writing to file"
                                                  /\ log[e].name = specs[k].name})

\* a report of a run in which a schema was not translated, a write failed and
\* sub-assets were written: N is not below M although a spec is missing
C22_Witness ==
    /\ pc = "done"
    /\ \E k \in 1..Len(cfSchemas) : cfSchemas[k].typeName \notin Names(specs)
    /\ \E k \in SubAssets : k \in WrittenUpTo(Len(specs))
    /\ log[Len(log)].built = Len(specs) - 1
    /\ log[Len(log)].built >= log[Len(log)].outOf

(***************************************************************************)
(* C23.  After a completed run the output directory holds the artifacts of *)
(* the specs written in that run and nothing else: no file under the name  *)
(* of a spec whose write failed, although an earlier run may have written  *)
(* one, and no file of an earlier run under a name that the new final      *)
(* collection does not have.                                               *)
(***************************************************************************)
\* the names of the specs whose write failed in this run
WriteFailed == {log[e].name : e \in {n \in 1..Len(log) : log[n].kind = "Error writing to file"}}

FileNames(dir) == {a.name : a \in dir}

C23_OnlyThisRunsArtifacts ==
    (pc = "done") =>
        /\ disk = {Artifact(specs[k]) : k \in {n \in 1..Len(specs) : specs[n].name \notin WriteFailed}}
        /\ WriteFailed \cap FileNames(disk) = {}
        /\ FileNames(priorDisk) \ Names(specs) \subseteq FileNames(priorDisk) \ FileNames(disk)

\* a completed run that found, in the directory, an artifact under the name of
\* the spec whose write then failed and one under a name it does not produce
C23_Witness ==
    /\ pc = "done"
    /\ disk # {}
    /\ WriteFailed \cap FileNames(priorDisk) # {}
    /\ FileNames(priorDisk) \ Names(specs) # {}

(***************************************************************************)
(* Properties of removeFromEditField.                                      *)
(***************************************************************************)
\* the events of one kind of subscription s
EventsOf(s, kind) == LET Is(e) == e.kind = kind IN SelectSeq(events[s], Is)

\* the subscriptions whose first pair has been combined
Combined == {s \in 1..Len(subscriptions) : subscriptions[s].state # "waiting"}

\* C24: the workspace in the request.  For objectKind Component or
\* ComponentProp and a null workspace the subscriber receives one value, the
\* error of code 10, no POST is sent and editSessionWritten$ is not
\* signalled; with a workspace the one request carries its id as
\* workspaceId; for every other objectKind the one request has no
\* workspaceId, whether the workspace is null or not.
C24_WorkspaceInRequest ==
    \A s \in Combined :
        LET sub == subscriptions[s]
            posts == EventsOf(s, "POST")
        IN  IF sub.args.objectKind \in {"Component", "ComponentProp"}
            THEN IF sub.first[2] = NullWorkspace
                 THEN /\ sub.out = <<NoWorkspaceError>>
                      /\ sub.out[1].error.code = 10
                      /\ events[s] = <<>>
                 ELSE /\ Len(posts) = 1
                      /\ posts[1].request[1].workspaceId = <<sub.first[2].id>>
            ELSE /\ Len(posts) = 1
                 /\ posts[1].request[1].workspaceId = <<>>
                 /\ posts[1].url = "edit_field/remove_from_edit_field"

\* one call for a component without a workspace and one for another kind of
\* object without a workspace: the first has ended with the error, the second
\* has sent its request
C24_Witness ==
    /\ Len(subscriptions) = 2
    /\ Combined = {1, 2}
    /\ subscriptions[1].args.objectKind = "ComponentProp"
    /\ subscriptions[1].first[2] = NullWorkspace
    /\ subscriptions[1].state = "complete"
    /\ subscriptions[2].args.objectKind = "Schema"
    /\ subscriptions[2].first[2] = NullWorkspace
    /\ EventsOf(2, "POST") # <<>>

\* the position of the first event of a kind among the events of subscription s,
\* 0 when there is none
FirstEvent(s, kind) ==
    IF \E n \in 1..Len(events[s]) : events[s][n].kind = kind
    THEN CHOOSE n \in 1..Len(events[s]) :
             /\ events[s][n].kind = kind
             /\ \A m \in 1..(n - 1) : events[s][m].kind # kind
    ELSE 0

\* C25: one request per subscription.  A subscription sends at most one POST,
\* built from the first pair of visibility and workspace that was combined,
\* whatever the sources emit later; editSessionWritten$ is signalled at most
\* once for it, after the POST was sent and its response has arrived.
C25_OneRequestPerSubscription ==
    \A s \in 1..Len(subscriptions) :
        LET sub == subscriptions[s]
            posts == EventsOf(s, "POST")
        IN  /\ Len(posts) <= 1
            /\ (s \notin Combined) => events[s] = <<>>
            /\ posts # <<>> =>
                  /\ posts[1].request[1].visibility_change_set_pk
                        = sub.first[1].visibility_change_set_pk
                  /\ posts[1].request[1].objectKind = sub.args.objectKind
                  /\ posts[1].request[1].workspaceId \in {<<>>, <<sub.first[2].id>>}
            /\ Len(EventsOf(s, "editSessionWritten")) <= 1
            /\ EventsOf(s, "editSessionWritten") # <<>> =>
                  /\ 0 < FirstEvent(s, "POST")
                  /\ FirstEvent(s, "POST") < FirstEvent(s, "response")
                  /\ FirstEvent(s, "response") < FirstEvent(s, "editSessionWritten")

\* a subscription whose response has arrived, after visibility$ has emitted
\* another value than the one its request was built from
C25_Witness ==
    /\ Len(subscriptions) >= 1
    /\ subscriptions[1].state = "complete"
    /\ Len(EventsOf(1, "editSessionWritten")) = 1
    /\ emissions = MaxEmissions
    /\ visibility # <<subscriptions[1].first[1]>>

(***************************************************************************)
(* Properties of useWorkspacesStore.                                       *)
(***************************************************************************)
\* C26: the keys of the two maps.  After any sequence of successful store
\* actions every key k of workspacesById maps to a workspace whose id is k,
\* and every key u of selectedWorkspaceMembersById maps to a member whose
\* userId is u.  INVITE_USER, with the single member it declares as its
\* response, breaks the second half.
C26_KeysAreIds ==
    /\ \A n \in 1..Len(workspacesById) :
          /\ workspacesById[n].value \in Workspaces
          /\ workspacesById[n].value.id = workspacesById[n].key
    /\ \A n \in 1..Len(selectedWorkspaceMembersById) :
          /\ selectedWorkspaceMembersById[n].value \in WorkspaceMembers
          /\ selectedWorkspaceMembersById[n].value.userId = selectedWorkspaceMembersById[n].key

\* the workspaces of workspacesById
Stored == {workspacesById[n].value : n \in 1..Len(workspacesById)}

\* those the signed-in user created and that are marked as default
StoredDefaults == {ws \in Stored : user # <<>> /\ ws.creatorUserId = user[1].id /\ ws.isDefault}

\* those the signed-in user created on the production instance
StoredProduction ==
    {ws \in Stored : user # <<>> /\ ws.creatorUserId = user[1].id
                                /\ ws.instanceEnvType = "SI"}

====
